---- MODULE Spec2Model ----
(***************************************************************************)
(* lazy-mt: a lazily evaluated value shared between threads.               *)
(*                                                                         *)
(* Thunk<E, V> is an RwLock around Inner<E, V>, which is one of            *)
(* Unevaluated(e), Evaluating, Value(v).  The model follows src/lib.rs     *)
(* statement by statement: every lock acquisition, the mem::replace of     *)
(* force, the run of the evaluator and every store is a step of its own,   *)
(* so that the interleavings of several threads sharing one thunk are the  *)
(* behaviours of the specification.                                        *)
(***************************************************************************)
EXTENDS Naturals, FiniteSets

\* Threads sharing the thunk.
NumThreads == 2
\* Calls (force, deref, deref_mut) the threads make in all.
MaxCalls == 3
\* Values of type V are 1..NumValues.
NumValues == 2

Threads == 1..NumThreads
Values == 1..NumValues

\* No thread / no value.
None == 0

VARIABLES
    inner,      \* the data of the RwLock: Inner<E, V>
    readers,    \* threads holding a read guard of the RwLock
    writer,     \* the thread holding the write guard, or None
    poisoned,   \* the RwLock's poison flag
    pc,         \* where each thread is in its current call
    op,         \* the call each thread is making
    taken,      \* what mem::replace returned to each thread in force
    seen,       \* what each thread last read through the &V that deref returned
    calls,      \* calls started so far, by all threads
    ctor,       \* how the thunk was constructed ("new" or "evaluated")
    evaluator,  \* the evaluator e given to Thunk::new
    evalCount,  \* runs of e.evaluate() started
    evalDone,   \* runs of e.evaluate() that returned
    forced,     \* some call of force has returned
    cur,        \* the value last stored by the evaluator or through &mut V
    mutated     \* a value has been stored through the &mut V of deref_mut

vars == <<inner, readers, writer, poisoned, pc, op, taken, seen, calls,
          ctor, evaluator, evalCount, evalDone, forced, cur, mutated>>

\* ------------------------------------------------------------------ data

\* The payload of a variant that holds no evaluator.
NoEvaluator == [behaviour |-> "none", result |-> None]

\* enum Inner<E, V>
Unevaluated(e) == [tag |-> "Unevaluated", e |-> e, v |-> None]
Evaluating == [tag |-> "Evaluating", e |-> NoEvaluator, v |-> None]
Value(v) == [tag |-> "Value", e |-> NoEvaluator, v |-> v]

\* What a value implementing Evaluate<V> may do when evaluate() consumes it:
\* return its result, panic, never return, or access the thunk it belongs to.
Behaviours == {"returns", "panics", "diverges", "reenters"}
Evaluators == [behaviour : Behaviours, result : Values]

\* e.evaluate(), when it returns.
evaluate(e) == e.result

\* new that evaluates eagerly.
newEager(e) == Value(evaluate(e))

\* Thunk::new(e)
new(e) == Unevaluated(e)

\* evaluated that defers: it wraps the value in an evaluator returning it.
evaluatedDeferred(val) ==
    Unevaluated([behaviour |-> "returns", result |-> val])

\* Thunk::evaluated(val)
evaluated(val) == Value(val)

\* ------------------------------------------------------------------ lock

\* RwLock::read() can take the lock: no writer holds it.
CanRead == writer = None

\* RwLock::write() can take the lock: nobody holds it.
CanWrite == writer = None /\ readers = {}

\* Where a call goes on when its force() has returned.
AfterForce(o) ==
    CASE o = "force" -> "idle"
      [] o = "deref" -> "d_read"
      [] o = "deref_mut" -> "m_write"

\* The calls that take &self; deref_mut takes &mut self.
SharedOps == {"force", "deref"}

\* A thread that holds a borrow of the thunk: it is inside a call, or holds
\* the reference a call returned.  A panicked thread has unwound.
Borrowing(t) == pc[t] \notin {"idle", "panicked"}

\* ------------------------------------------------------------------ init

\* The thunk is Thunk::new(e) for some evaluator e, or Thunk::evaluated(val)
\* for some value val (kept as e.result; there is no evaluator then).
Init ==
    /\ \E c \in {"new", "evaluated"}, e \in Evaluators :
          \* Thunk::evaluated is given a value and no evaluator
          /\ c = "evaluated" => e.behaviour = "returns"
          /\ ctor = c
          /\ evaluator = e
          /\ inner = IF c = "new" THEN new(e) ELSE evaluated(e.result)
          /\ cur = IF c = "new" THEN None ELSE e.result
    /\ readers = {}
    /\ writer = None
    /\ poisoned = FALSE
    /\ pc = [t \in Threads |-> "idle"]
    /\ op = [t \in Threads |-> "none"]
    /\ taken = [t \in Threads |-> Evaluating]
    /\ seen = [t \in Threads |-> None]
    /\ calls = 0
    /\ evalCount = 0
    /\ evalDone = 0
    /\ forced = FALSE
    /\ mutated = FALSE

\* --------------------------------------------------------------- callers

\* Start of an accessor that does not force first: deref and deref_mut go
\* straight to their own lock acquisition.
StartSkipsForce(t, o) ==
    /\ pc[t] = "idle"
    /\ calls < MaxCalls
    /\ IF o \in SharedOps
         THEN \A u \in Threads \ {t} : Borrowing(u) => op[u] \in SharedOps
         ELSE \A u \in Threads \ {t} : ~Borrowing(u)
    /\ pc' = [pc EXCEPT ![t] = IF o = "force" THEN "f_read" ELSE AfterForce(o)]
    /\ op' = [op EXCEPT ![t] = o]
    /\ calls' = calls + 1
    /\ seen' = [seen EXCEPT ![t] = None]
    /\ UNCHANGED <<inner, readers, writer, poisoned, taken, ctor, evaluator,
                   evalCount, evalDone, forced, cur, mutated>>

\* A thread calls force(), *thunk (deref) or a write through *thunk
\* (deref_mut).  deref_mut takes &mut self: the borrow checker admits it only
\* while no other borrow of the thunk is live, and admits no other call while
\* it or its &mut V is live.
Start(t, o) ==
    /\ pc[t] = "idle"
    /\ calls < MaxCalls
    /\ IF o \in SharedOps
         THEN \A u \in Threads \ {t} : Borrowing(u) => op[u] \in SharedOps
         ELSE \A u \in Threads \ {t} : ~Borrowing(u)
    /\ pc' = [pc EXCEPT ![t] = "f_read"]
    /\ op' = [op EXCEPT ![t] = o]
    /\ calls' = calls + 1
    /\ seen' = [seen EXCEPT ![t] = None]
    /\ UNCHANGED <<inner, readers, writer, poisoned, taken, ctor, evaluator,
                   evalCount, evalDone, forced, cur, mutated>>

\* ----------------------------------------------------------------- force

\* ForceRead that does not wait for the writer to release the lock.
ForceReadNoWait(t) ==
    /\ pc[t] = "f_read"
    /\ IF poisoned
         THEN /\ pc' = [pc EXCEPT ![t] = "panicked"]
              /\ UNCHANGED readers
         ELSE /\ pc' = [pc EXCEPT ![t] = "f_check"]
              /\ readers' = readers \cup {t}
    /\ UNCHANGED <<inner, writer, poisoned, op, taken, seen, calls, ctor,
                   evaluator, evalCount, evalDone, forced, cur, mutated>>

\* ForceRead that recovers the guard from a poisoned lock instead of
\* unwrapping.
ForceReadIgnoresPoison(t) ==
    /\ pc[t] = "f_read"
    /\ CanRead
    /\ pc' = [pc EXCEPT ![t] = "f_check"]
    /\ readers' = readers \cup {t}
    /\ UNCHANGED <<inner, writer, poisoned, op, taken, seen, calls, ctor,
                   evaluator, evalCount, evalDone, forced, cur, mutated>>

\* force, line 75: self.0.read().unwrap().  A poisoned lock makes read()
\* return Err and unwrap panic; the guard inside the error is dropped.
ForceRead(t) ==
    /\ pc[t] = "f_read"
    /\ CanRead
    /\ IF poisoned
         THEN /\ pc' = [pc EXCEPT ![t] = "panicked"]
              /\ UNCHANGED readers
         ELSE /\ pc' = [pc EXCEPT ![t] = "f_check"]
              /\ readers' = readers \cup {t}
    /\ UNCHANGED <<inner, writer, poisoned, op, taken, seen, calls, ctor,
                   evaluator, evalCount, evalDone, forced, cur, mutated>>

\* ForceCheck without the early return: every call goes on to the write
\* phase.
ForceCheckAlwaysWrites(t) ==
    /\ pc[t] = "f_check"
    /\ readers' = readers \ {t}
    /\ pc' = [pc EXCEPT ![t] = "f_write"]
    /\ UNCHANGED <<inner, writer, poisoned, op, taken, seen, calls, ctor,
                   evaluator, evalCount, evalDone, forced, cur, mutated>>

\* ForceCheck with the read guard bound to a variable of force: it is still
\* held when the write phase starts.
ForceCheckKeepsGuard(t) ==
    /\ pc[t] = "f_check"
    /\ IF inner.tag = "Value"
         THEN /\ pc' = [pc EXCEPT ![t] = AfterForce(op[t])]
              /\ readers' = readers \ {t}
              /\ forced' = TRUE
         ELSE /\ pc' = [pc EXCEPT ![t] = "f_write"]
              /\ UNCHANGED <<readers, forced>>
    /\ UNCHANGED <<inner, writer, poisoned, op, taken, seen, calls, ctor,
                   evaluator, evalCount, evalDone, cur, mutated>>

\* force, lines 75-77: if let Value(_) = *guard { return; }.  The read guard
\* is a temporary of the statement and is dropped on both ways out.
ForceCheck(t) ==
    /\ pc[t] = "f_check"
    /\ readers' = readers \ {t}
    /\ IF inner.tag = "Value"
         THEN /\ pc' = [pc EXCEPT ![t] = AfterForce(op[t])]
              /\ forced' = TRUE
         ELSE /\ pc' = [pc EXCEPT ![t] = "f_write"]
              /\ UNCHANGED forced
    /\ UNCHANGED <<inner, writer, poisoned, op, taken, seen, calls, ctor,
                   evaluator, evalCount, evalDone, cur, mutated>>

\* ForceWrite that recovers the guard from a poisoned lock instead of
\* unwrapping.
ForceWriteIgnoresPoison(t) ==
    /\ pc[t] = "f_write"
    /\ CanWrite
    /\ pc' = [pc EXCEPT ![t] = "f_replace"]
    /\ writer' = t
    /\ UNCHANGED <<inner, readers, poisoned, op, taken, seen, calls, ctor,
                   evaluator, evalCount, evalDone, forced, cur, mutated>>

\* ForceWrite that returns at once, before the lock is granted.
ForceWriteNoWait(t) ==
    /\ pc[t] = "f_write"
    /\ IF poisoned
         THEN /\ pc' = [pc EXCEPT ![t] = "panicked"]
              /\ UNCHANGED writer
         ELSE /\ pc' = [pc EXCEPT ![t] = "f_replace"]
              /\ writer' = t
    /\ UNCHANGED <<inner, readers, poisoned, op, taken, seen, calls, ctor,
                   evaluator, evalCount, evalDone, forced, cur, mutated>>

\* force, line 79: let mut w = self.0.write().unwrap().
ForceWrite(t) ==
    /\ pc[t] = "f_write"
    /\ CanWrite
    /\ IF poisoned
         THEN /\ pc' = [pc EXCEPT ![t] = "panicked"]
              /\ UNCHANGED writer
         ELSE /\ pc' = [pc EXCEPT ![t] = "f_replace"]
              /\ writer' = t
    /\ UNCHANGED <<inner, readers, poisoned, op, taken, seen, calls, ctor,
                   evaluator, evalCount, evalDone, forced, cur, mutated>>

\* ForceReplace that copies the state out without writing Evaluating in its
\* place.
ForceReplaceNoMarker(t) ==
    /\ pc[t] = "f_replace"
    /\ taken' = [taken EXCEPT ![t] = inner]
    /\ CASE inner.tag = "Unevaluated" ->
              /\ pc' = [pc EXCEPT ![t] = "f_eval"]
              /\ evalCount' = evalCount + 1
              /\ UNCHANGED <<writer, poisoned>>
         [] inner.tag = "Value" ->
              /\ pc' = [pc EXCEPT ![t] = "f_restore"]
              /\ UNCHANGED <<writer, poisoned, evalCount>>
         [] inner.tag = "Evaluating" ->
              /\ pc' = [pc EXCEPT ![t] = "panicked"]
              /\ writer' = None
              /\ poisoned' = TRUE
              /\ UNCHANGED evalCount
    /\ UNCHANGED <<inner, readers, op, seen, calls, ctor, evaluator, evalDone,
                   forced, cur, mutated>>

\* force, line 81: match mem::replace(&mut *w, Evaluating).  Whatever the
\* state was, it is moved out and Evaluating is written in its place; the
\* match then calls e.evaluate() (line 82), goes to store the value back
\* (line 83), or hits unreachable!() (line 84), whose panic unwinds through
\* the write guard and poisons the lock.
ForceReplace(t) ==
    /\ pc[t] = "f_replace"
    /\ taken' = [taken EXCEPT ![t] = inner]
    /\ inner' = Evaluating
    /\ CASE inner.tag = "Unevaluated" ->
              /\ pc' = [pc EXCEPT ![t] = "f_eval"]
              /\ evalCount' = evalCount + 1
              /\ UNCHANGED <<writer, poisoned>>
         [] inner.tag = "Value" ->
              /\ pc' = [pc EXCEPT ![t] = "f_restore"]
              /\ UNCHANGED <<writer, poisoned, evalCount>>
         [] inner.tag = "Evaluating" ->
              /\ pc' = [pc EXCEPT ![t] = "panicked"]
              /\ writer' = None
              /\ poisoned' = TRUE
              /\ UNCHANGED evalCount
    /\ UNCHANGED <<readers, op, seen, calls, ctor, evaluator, evalDone,
                   forced, cur, mutated>>

\* EvalReturn with the evaluator put back in place of its result.
EvalReturnPutsBack(t) ==
    /\ pc[t] = "f_eval"
    /\ taken[t].e.behaviour = "returns"
    /\ inner' = taken[t]
    /\ cur' = evaluate(taken[t].e)
    /\ evalDone' = evalDone + 1
    /\ pc' = [pc EXCEPT ![t] = "f_unlock"]
    /\ UNCHANGED <<readers, writer, poisoned, op, taken, seen, calls, ctor,
                   evaluator, evalCount, forced, mutated>>

\* force, line 82: e.evaluate() returns and *w = Value(..) stores its result.
EvalReturn(t) ==
    /\ pc[t] = "f_eval"
    /\ taken[t].e.behaviour = "returns"
    /\ inner' = Value(evaluate(taken[t].e))
    /\ cur' = evaluate(taken[t].e)
    /\ evalDone' = evalDone + 1
    /\ pc' = [pc EXCEPT ![t] = "f_unlock"]
    /\ UNCHANGED <<readers, writer, poisoned, op, taken, seen, calls, ctor,
                   evaluator, evalCount, forced, mutated>>

\* EvalPanic on a lock that does not poison: the write guard is released and
\* the lock stays usable.
EvalPanicNoPoison(t) ==
    /\ pc[t] = "f_eval"
    /\ taken[t].e.behaviour = "panics"
    /\ writer' = None
    /\ pc' = [pc EXCEPT ![t] = "panicked"]
    /\ UNCHANGED <<inner, readers, poisoned, op, taken, seen, calls, ctor,
                   evaluator, evalCount, evalDone, forced, cur, mutated>>

\* force, line 82: e.evaluate() panics.  Unwinding drops w, which poisons
\* the lock and releases it; the state stays as line 81 left it.
EvalPanic(t) ==
    /\ pc[t] = "f_eval"
    /\ taken[t].e.behaviour = "panics"
    /\ poisoned' = TRUE
    /\ writer' = None
    /\ pc' = [pc EXCEPT ![t] = "panicked"]
    /\ UNCHANGED <<inner, readers, op, taken, seen, calls, ctor, evaluator,
                   evalCount, evalDone, forced, cur, mutated>>

\* EvalReenter on a lock that lets its holder in again: the nested force
\* returns and the evaluator goes on to return its result.
EvalReenterReturns(t) ==
    /\ pc[t] = "f_eval"
    /\ taken[t].e.behaviour = "reenters"
    /\ inner' = Value(evaluate(taken[t].e))
    /\ cur' = evaluate(taken[t].e)
    /\ evalDone' = evalDone + 1
    /\ pc' = [pc EXCEPT ![t] = "f_unlock"]
    /\ UNCHANGED <<readers, writer, poisoned, op, taken, seen, calls, ctor,
                   evaluator, evalCount, forced, mutated>>

\* force, line 82: e.evaluate() forces the thunk it belongs to, and so calls
\* self.0.read() (line 75) on the thread that holds the write guard.
EvalReenter(t) ==
    /\ pc[t] = "f_eval"
    /\ taken[t].e.behaviour = "reenters"
    /\ pc' = [pc EXCEPT ![t] = "f_nested"]
    /\ UNCHANGED <<inner, readers, writer, poisoned, op, taken, seen, calls,
                   ctor, evaluator, evalCount, evalDone, forced, cur,
                   mutated>>

\* RwLock::read() on a lock the calling thread already holds blocks for ever
\* or panics (std: "might panic when called if the lock is already held by
\* the current thread").  Blocking is the absence of a step; this is the panic,
\* which unwinds out of the evaluator like any other.
NestedPanic(t) ==
    /\ pc[t] = "f_nested"
    /\ poisoned' = TRUE
    /\ writer' = None
    /\ pc' = [pc EXCEPT ![t] = "panicked"]
    /\ UNCHANGED <<inner, readers, op, taken, seen, calls, ctor, evaluator,
                   evalCount, evalDone, forced, cur, mutated>>

\* ForceRestore that stores nothing back: the state stays as line 81 left it.
ForceRestoreForgets(t) ==
    /\ pc[t] = "f_restore"
    /\ pc' = [pc EXCEPT ![t] = "f_unlock"]
    /\ UNCHANGED <<inner, readers, writer, poisoned, op, taken, seen, calls,
                   ctor, evaluator, evalCount, evalDone, forced, cur, mutated>>

\* force, line 83: Value(v) => *w = Value(v).
ForceRestore(t) ==
    /\ pc[t] = "f_restore"
    /\ inner' = Value(taken[t].v)
    /\ pc' = [pc EXCEPT ![t] = "f_unlock"]
    /\ UNCHANGED <<readers, writer, poisoned, op, taken, seen, calls, ctor,
                   evaluator, evalCount, evalDone, forced, cur, mutated>>

\* ForceUnlock that returns with the write guard leaked: the lock is never
\* released.
ForceUnlockKeepsLock(t) ==
    /\ pc[t] = "f_unlock"
    /\ pc' = [pc EXCEPT ![t] = AfterForce(op[t])]
    /\ forced' = TRUE
    /\ UNCHANGED <<inner, readers, writer, poisoned, op, taken, seen, calls,
                   ctor, evaluator, evalCount, evalDone, cur, mutated>>

\* force, line 86: w is dropped and force returns.
ForceUnlock(t) ==
    /\ pc[t] = "f_unlock"
    /\ writer' = None
    /\ pc' = [pc EXCEPT ![t] = AfterForce(op[t])]
    /\ forced' = TRUE
    /\ UNCHANGED <<inner, readers, poisoned, op, taken, seen, calls, ctor,
                   evaluator, evalCount, evalDone, cur, mutated>>

\* ----------------------------------------------------------------- deref

\* deref, line 113: self.0.read().unwrap(), after self.force() (line 112).
DerefRead(t) ==
    /\ pc[t] = "d_read"
    /\ CanRead
    /\ IF poisoned
         THEN /\ pc' = [pc EXCEPT ![t] = "panicked"]
              /\ UNCHANGED readers
         ELSE /\ pc' = [pc EXCEPT ![t] = "d_match"]
              /\ readers' = readers \cup {t}
    /\ UNCHANGED <<inner, writer, poisoned, op, taken, seen, calls, ctor,
                   evaluator, evalCount, evalDone, forced, cur, mutated>>

\* deref, lines 113-119: Value(ref val) => transmute(val) hands out a &V into
\* the lock's data that outlives the read guard; any other state is
\* unreachable!().  The guard is dropped either way (a read guard does not
\* poison).
DerefMatch(t) ==
    /\ pc[t] = "d_match"
    /\ readers' = readers \ {t}
    /\ pc' = [pc EXCEPT ![t] = IF inner.tag = "Value" THEN "d_ref"
                                                      ELSE "panicked"]
    /\ UNCHANGED <<inner, writer, poisoned, op, taken, seen, calls, ctor,
                   evaluator, evalCount, evalDone, forced, cur, mutated>>

\* What a read through a &V into the lock's data can yield.  While the slot
\* holds Value(v) it is v.  While a force has moved the value out (line 81)
\* and not yet stored it back (line 83), the read races with those writes:
\* undefined behaviour, any value.
Readable == IF inner.tag = "Value" THEN {inner.v} ELSE Values

\* The caller reads through the reference deref returned (the doctests'
\* assert_eq!(**reff, 7), lines 54 and 56), holding no lock, and drops it.
UseRef(t) ==
    /\ pc[t] = "d_ref"
    /\ \E v \in Readable : seen' = [seen EXCEPT ![t] = v]
    /\ pc' = [pc EXCEPT ![t] = "idle"]
    /\ UNCHANGED <<inner, readers, writer, poisoned, op, taken, calls, ctor,
                   evaluator, evalCount, evalDone, forced, cur, mutated>>

\* ------------------------------------------------------------- deref_mut

\* deref_mut, line 95: self.0.write().unwrap(), after self.force() (line 94).
DerefMutWrite(t) ==
    /\ pc[t] = "m_write"
    /\ CanWrite
    /\ IF poisoned
         THEN /\ pc' = [pc EXCEPT ![t] = "panicked"]
              /\ UNCHANGED writer
         ELSE /\ pc' = [pc EXCEPT ![t] = "m_match"]
              /\ writer' = t
    /\ UNCHANGED <<inner, readers, poisoned, op, taken, seen, calls, ctor,
                   evaluator, evalCount, evalDone, forced, cur, mutated>>

\* deref_mut, lines 95-101: Value(ref mut val) => transmute(val) hands out a
\* &mut V; any other state is unreachable!(), a panic under the write guard.
DerefMutMatch(t) ==
    /\ pc[t] = "m_match"
    /\ writer' = None
    /\ IF inner.tag = "Value"
         THEN /\ pc' = [pc EXCEPT ![t] = "m_ref"]
              /\ UNCHANGED poisoned
         ELSE /\ pc' = [pc EXCEPT ![t] = "panicked"]
              /\ poisoned' = TRUE
    /\ UNCHANGED <<inner, readers, op, taken, seen, calls, ctor, evaluator,
                   evalCount, evalDone, forced, cur, mutated>>

\* MutStore through a reference to a copy of the value: the thunk keeps what
\* it held.
MutStoreToCopy(t, v) ==
    /\ pc[t] = "m_ref"
    /\ cur' = v
    /\ mutated' = TRUE
    /\ pc' = [pc EXCEPT ![t] = "idle"]
    /\ UNCHANGED <<inner, readers, writer, poisoned, op, taken, seen, calls,
                   ctor, evaluator, evalCount, evalDone, forced>>

\* The caller writes v through the &mut V that deref_mut returned, and drops
\* it.
MutStore(t, v) ==
    /\ pc[t] = "m_ref"
    /\ inner' = [inner EXCEPT !.v = v]
    /\ cur' = v
    /\ mutated' = TRUE
    /\ pc' = [pc EXCEPT ![t] = "idle"]
    /\ UNCHANGED <<readers, writer, poisoned, op, taken, seen, calls, ctor,
                   evaluator, evalCount, evalDone, forced>>

\* ------------------------------------------------------------------ spec

Next ==
    \E t \in Threads :
        \/ \E o \in {"force", "deref", "deref_mut"} : Start(t, o)
        \/ ForceRead(t)
        \/ ForceCheck(t)
        \/ ForceWrite(t)
        \/ ForceReplace(t)
        \/ EvalReturn(t)
        \/ EvalPanic(t)
        \/ EvalReenter(t)
        \/ NestedPanic(t)
        \/ ForceRestore(t)
        \/ ForceUnlock(t)
        \/ DerefRead(t)
        \/ DerefMatch(t)
        \/ UseRef(t)
        \/ DerefMutWrite(t)
        \/ DerefMutMatch(t)
        \/ \E v \in Values : MutStore(t, v)

Spec == Init /\ [][Next]_vars

\* ---------------------------------------------------------------- claims

\* A step in which thread t's call of force returns: from the read phase
\* (line 76) or at the end of the write phase (line 86).
ForceReturns(t) ==
    /\ pc[t] \in {"f_check", "f_unlock"}
    /\ pc'[t] = AfterForce(op[t])

\* C1. Compute-once: on a thunk made by Thunk::new, whatever the number of
\* threads forcing it and however they interleave, e.evaluate() is run at most
\* once, and exactly once as soon as some call of force has returned.
C1_ComputeOnce ==
    /\ evalCount <= 1
    /\ (ctor = "new" /\ forced) => evalCount = 1 /\ evalDone = 1

\* Two threads have raced: one evaluated, the other found Value under the
\* write lock and is about to return.
C1_Witness ==
    /\ ctor = "new"
    /\ evalCount = 1
    /\ \E t \in Threads : pc[t] = "f_unlock" /\ taken[t].tag = "Value"

\* C2. Postcondition of force, as claimed: once a call of force has returned,
\* the state is Value then and in every later state.
C2_ForcePostcondition == forced => inner.tag = "Value"

\* C3. Write-once, as claimed: no step takes the state out of Value.
C3_WriteOnce == [][inner.tag = "Value" => inner'.tag = "Value"]_vars

\* C4. Read-through, as claimed: on a thunk made by Thunk::new and never
\* written through deref_mut, what a thread reads through the reference deref
\* returned is the evaluator's result, and no two such reads differ.
C4_ReadThrough ==
    (ctor = "new" /\ ~mutated) =>
        /\ \A t \in Threads : seen[t] # None => seen[t] = evaluate(evaluator)
        /\ \A t, u \in Threads :
              seen[t] # None /\ seen[u] # None => seen[t] = seen[u]

\* C5. Idempotence of force: once some call of force has returned, no step
\* runs the evaluator, and every call of force that returns, from the read
\* phase or after finding Value under the write lock, leaves the state
\* Value(v) with v the value that was stored before; a call that took the
\* value out has stored that same value back.
C5_Idempotent ==
    [][forced =>
          /\ evalCount' = evalCount
          /\ \A t \in Threads :
                ForceReturns(t) =>
                    /\ inner' = Value(cur)
                    /\ cur' = cur
                    /\ pc[t] = "f_unlock" => inner' = taken[t]]_vars

\* A call that lost the race has stored the value back and is about to
\* return, after another call of force returned.
C5_Witness ==
    /\ forced
    /\ \E t \in Threads :
          pc[t] = "f_unlock" /\ taken[t].tag = "Value" /\ inner = taken[t]

\* The thunk is in the state Thunk::evaluated(v) gives it, for the value v
\* last stored.
LikeEvaluated ==
    /\ inner = Value(cur)
    /\ ~mutated => cur = evaluator.result

C7_Lazy ==
    ctor = "new" =>
        /\ calls = 0 => evalCount = 0
        /\ evalCount = 0 => inner = Unevaluated(evaluator) /\ ~forced

\* The thunk has been constructed and not yet accessed.
C7_Witness ==
    /\ ctor = "new"
    /\ calls = 0
    /\ inner.tag = "Unevaluated"
    /\ evalCount = 0

\* ------------------------------------------------- terminating evaluators

\* The steps of thread t inside a call, and with the reference it returned,
\* when the evaluator returns.
Run(t) ==
    \/ ForceRead(t)
    \/ ForceCheck(t)
    \/ ForceWrite(t)
    \/ ForceReplace(t)
    \/ EvalReturn(t)
    \/ ForceRestore(t)
    \/ ForceUnlock(t)
    \/ DerefRead(t)
    \/ DerefMatch(t)
    \/ UseRef(t)
    \/ DerefMutWrite(t)
    \/ DerefMutMatch(t)
    \/ \E v \in Values : MutStore(t, v)

\* A thunk whose evaluator returns and does not access the thunk.
LiveInit == Init /\ evaluator.behaviour = "returns"

LiveNext ==
    \E t \in Threads :
        \/ \E o \in {"force", "deref", "deref_mut"} : Start(t, o)
        \/ Run(t)

\* A fair scheduler and lock: a thread that can take a step, an acquisition
\* the lock can grant included, eventually takes one.  Nothing obliges a
\* thread to start a call.
LiveSpec ==
    /\ LiveInit
    /\ [][LiveNext]_vars
    /\ \A t \in Threads : WF_vars(Run(t))

\* Thread t is inside a call of force, deref or deref_mut.
InCall(t) == pc[t] \notin {"idle", "d_ref", "m_ref", "panicked"}

\* Thread t is running the evaluator.
InEvaluator(t) == pc[t] \in {"f_eval", "f_nested"}

\* A step in which thread t's call returns to its caller.
Returns(t) ==
    \/ ForceReturns(t) /\ op[t] = "force"
    \/ pc[t] = "d_match" /\ pc'[t] = "d_ref"
    \/ pc[t] = "m_match" /\ pc'[t] = "m_ref"

\* C8. Liveness and deadlock-freedom: with an evaluator that returns and
\* does not access the thunk, under a fair lock and scheduler, every call of
\* force, deref and deref_mut returns, and its force returns having observed
\* Value; no thread panics; while a call is in progress some thread
\* inside a call can take a step; and no thread requests the write lock
\* while holding a read guard.
C8_Live ==
    /\ \A t \in Threads : InCall(t) ~> ~InCall(t)
    /\ [][\A t \in Threads : ForceReturns(t) => inner.tag = "Value"]_vars
    /\ [](\A t \in Threads : pc[t] # "panicked")
    /\ []((\E t \in Threads : InCall(t)) => ENABLED (\E t \in Threads : Run(t)))
    /\ [](\A t \in Threads : pc[t] \in {"f_write", "m_write"} => t \notin readers)

\* Every thread is back from its call, one having evaluated and another
\* having waited for the write lock and found Value.
C8_Witness ==
    /\ ctor = "new"
    /\ \A t \in Threads : pc[t] = "idle"
    /\ \E t, u \in Threads :
          taken[t].tag = "Unevaluated" /\ taken[u].tag = "Value"

\* C9. Blocking during evaluation: while a thread runs the evaluator the
\* state is Evaluating, that thread holds the write lock and nobody holds a
\* read guard; no other thread takes a step other than starting a call, so
\* none returns; a call returns only when no evaluation is in progress, and on
\* a Thunk::new thunk only after the evaluator has returned and its thread
\* has released the write lock; if the evaluator does not return, no call of
\* force ever returns.
C9_Blocking ==
    /\ [](\A t \in Threads :
            InEvaluator(t) =>
                inner.tag = "Evaluating" /\ writer = t /\ readers = {})
    /\ [][\A t \in Threads :
            InEvaluator(t) =>
                \A u \in Threads \ {t} :
                    /\ pc'[u] = pc[u] \/ pc[u] = "idle"
                    /\ ~ForceReturns(u)
                    /\ ~Returns(u)]_vars
    /\ [][\A u \in Threads :
            (ForceReturns(u) \/ Returns(u)) =>
                /\ writer \in {None, u}
                /\ evalDone = evalCount
                /\ ctor = "new" => evalDone = 1]_vars
    /\ []((ctor = "new" /\ evaluator.behaviour # "returns") =>
            /\ ~forced
            /\ \A t \in Threads :
                  pc[t] \in {"idle", "panicked", "f_read", "f_check",
                             "f_write", "f_replace", "f_eval", "f_nested"})

\* One thread is in an evaluator that never returns while another waits for
\* the write lock.
C9_Witness ==
    /\ evaluator.behaviour = "diverges"
    /\ \E t, u \in Threads : pc[t] = "f_eval" /\ pc[u] = "f_write"

\* C10. Poisoning: a panic of the evaluator poisons the lock and leaves it
\* poisoned for good.  On a poisoned thunk the state is not Value and never
\* changes, no call has returned or returns, no value has been read, the
\* evaluator ran once and never runs again, and the only step a call takes is
\* the panic at its lock acquisition.
C10_Poisoned ==
    /\ [][\A t \in Threads :
            (InEvaluator(t) /\ pc'[t] = "panicked") => poisoned']_vars
    /\ [](poisoned =>
            /\ inner.tag # "Value"
            /\ ~forced
            /\ evalCount = 1 /\ evalDone = 0
            /\ writer = None /\ readers = {}
            /\ \A t \in Threads :
                  /\ pc[t] \in {"idle", "panicked", "f_read", "f_write"}
                  /\ seen[t] = None)
    /\ [][poisoned =>
            /\ poisoned'
            /\ inner' = inner
            /\ evalCount' = evalCount
            /\ \A t \in Threads :
                  pc'[t] # pc[t] =>
                      \/ pc[t] = "idle" /\ pc'[t] = "f_read"
                      \/ pc[t] \in {"f_read", "f_write"} /\ pc'[t] = "panicked"]_vars

\* The evaluator panicked in one thread, and another thread's call panicked
\* at its lock acquisition.
C10_Witness ==
    /\ poisoned
    /\ evaluator.behaviour = "panics"
    /\ evalCount = 1
    /\ \E t, u \in Threads : t # u /\ pc[t] = "panicked" /\ pc[u] = "panicked"

\* ------------------------------------------------------------ re-entrancy

\* C11, as claimed.  Re-entrant forcing deadlocks: a thread whose evaluator
\* forces the thunk it belongs to blocks for ever in the nested lock
\* acquisition.
C11_ReentrantBlocks ==
    [][\A t \in Threads : pc[t] = "f_nested" => pc'[t] = "f_nested"]_vars

\* C11, amended.  A thread whose evaluator forces the thunk it belongs to
\* never gets the lock in the nested call: it stays blocked there, holding the
\* write lock, or panics there and poisons the lock.  Either way, from the
\* moment the evaluator runs the state is Evaluating for good, the evaluator
\* never returns and no call of force, deref or deref_mut returns.
C11_ReentrantNeverReturns ==
    /\ [](\A t \in Threads :
            pc[t] = "f_nested" =>
                writer = t /\ readers = {} /\ inner.tag = "Evaluating")
    /\ [][\A t \in Threads :
            pc[t] = "f_nested" => pc'[t] \in {"f_nested", "panicked"}]_vars
    /\ []((ctor = "new" /\ evaluator.behaviour = "reenters") =>
            /\ ~forced
            /\ evalDone = 0
            /\ evalCount = 1 => inner.tag = "Evaluating"
            /\ \A t \in Threads : ~InCall(t) => pc[t] \in {"idle", "panicked"})

\* The evaluator has re-entered force on its own thread while another thread
\* waits for the write lock.
C11_Witness ==
    \E t, u \in Threads : pc[t] = "f_nested" /\ pc[u] = "f_write"

\* ---------------------------------------------------------- write-through

\* C12. Write-through visibility: once a value v has been stored through the
\* &mut V of deref_mut, the state is Value(v) for the value v stored last in
\* that way, it stays Value, every later read through a reference deref returned yields
\* that value, and the evaluator is not run again.
C12_WriteThrough ==
    /\ [](mutated =>
            /\ inner = Value(cur)
            /\ Readable = {cur}
            /\ evalCount = evalDone)
    /\ [][mutated =>
            /\ evalCount' = evalCount
            /\ inner'.tag = "Value"
            /\ \A t \in Threads :
                  (pc[t] = "d_ref" /\ pc'[t] = "idle") => seen'[t] = cur]_vars

\* A thread has read, through deref, a value stored through deref_mut that is
\* not the evaluator's result.
C12_Witness ==
    /\ ctor = "new"
    /\ mutated
    /\ cur # evaluate(evaluator)
    /\ \E t \in Threads : pc[t] = "idle" /\ seen[t] = cur

\* ---------------------------------------------------------------- ordering

\* Thread t has observed the state Value: it holds a guard over it, has taken
\* it out under the write lock, is past its force, or has read the value.
Observes(t) ==
    \/ t \in readers /\ inner.tag = "Value"
    \/ pc[t] \in {"f_restore", "f_unlock"} /\ taken[t].tag = "Value"
    \/ pc[t] \in {"d_read", "d_match", "d_ref", "m_write", "m_match", "m_ref"}
    \/ seen[t] # None

\* Thread u is the evaluating thread and has not yet released the write lock.
Unreleased(u) ==
    \/ InEvaluator(u)
    \/ pc[u] = "f_unlock" /\ taken[u].tag = "Unevaluated"

\* C13. Evaluation before observation: on a thunk made by Thunk::new, a
\* thread observes Value (under a guard, by returning from force, or by
\* reading through a reference deref returned) only after the evaluator has
\* returned, its result has been stored and the evaluating thread has
\* released the write lock.
C13_EvaluationFirst ==
    /\ [](ctor = "new" =>
            \A t \in Threads :
                Observes(t) =>
                    /\ evalDone = 1
                    /\ \A u \in Threads \ {t} : ~Unreleased(u))
    /\ []((ctor = "new" /\ forced) =>
            evalDone = 1 /\ \A u \in Threads : ~Unreleased(u))
    /\ [][ctor = "new" =>
            \A t \in Threads :
                ForceReturns(t) => evalDone' = 1 /\ writer' = None]_vars

\* A thread that did not evaluate holds a read guard over the value the other
\* thread's evaluator produced.
C13_Witness ==
    /\ ctor = "new"
    /\ \E t, u \in Threads :
          /\ t # u
          /\ pc[t] = "f_check" /\ t \in readers /\ inner.tag = "Value"
          /\ taken[u].tag = "Unevaluated" /\ ~Unreleased(u)

\* -------------------------------------------------------------- Evaluating

\* C14, as claimed.  Evaluating is never a resting state: whenever the state
\* is Evaluating some thread holds the write lock, so with the lock free or
\* held in read mode the state is Unevaluated or Value, also after an
\* evaluator panicked.
C14_EvaluatingUnderWriteLock ==
    /\ inner.tag = "Evaluating" => writer # None
    /\ readers # {} => inner.tag # "Evaluating"

\* C14, amended.  Whenever the state is Evaluating, some thread holds the
\* write lock or the lock is poisoned; with the lock free and not poisoned,
\* or held in read mode, the state is Unevaluated or Value.  No thread holds a
\* read guard on a poisoned lock, so no thread holding a read guard sees
\* Evaluating.
C14_EvaluatingLockedOrPoisoned ==
    /\ inner.tag = "Evaluating" => writer # None \/ poisoned
    /\ (writer = None /\ ~poisoned) => inner.tag \in {"Unevaluated", "Value"}
    /\ readers # {} => inner.tag # "Evaluating" /\ ~poisoned
    /\ \A t \in Threads :
          pc[t] \in {"f_check", "d_match"} =>
              t \in readers /\ inner.tag # "Evaluating"

\* An evaluator panicked: the state rests at Evaluating with the lock free,
\* and a second thread's call has panicked at its lock acquisition.
C14_Witness ==
    /\ inner.tag = "Evaluating"
    /\ writer = None
    /\ poisoned
    /\ \A t \in Threads : pc[t] = "panicked"

\* --------------------------------------------------------------- fast path

\* C15. Fast path: in its read phase force holds a read guard only, and a
\* call whose read phase sees Value returns from there: it does not go on to
\* request the write lock, nobody holds the write lock when it returns, and
\* the state, the value taken by mem::replace and the evaluator count are as
\* they were.
C15_FastPath ==
    /\ [](\A t \in Threads : pc[t] = "f_check" => t \in readers /\ writer = None)
    /\ [][\A t \in Threads :
            (pc[t] = "f_check" /\ inner.tag = "Value" /\ pc'[t] # pc[t]) =>
                /\ ForceReturns(t)
                /\ pc'[t] # "f_write"
                /\ writer' = None
                /\ inner' = inner
                /\ taken'[t] = taken[t]
                /\ evalCount' = evalCount]_vars

\* A call of force has returned from its read phase: its thread never ran
\* line 81.
C15_Witness ==
    /\ ctor = "new"
    /\ forced
    /\ \E t \in Threads :
          pc[t] = "idle" /\ op[t] = "force" /\ taken[t] = Evaluating

\* ---------------------------------------------------- after the evaluation

\* The evaluation is over: the thunk was made by Thunk::evaluated, or some
\* call of force has returned.
EvaluationDone == ctor = "evaluated" \/ forced

\* Thread t is in the write phase of force (lines 79-86).
InWritePhase(t) == pc[t] \in {"f_write", "f_replace", "f_restore", "f_unlock"}

\* A call of force by thread t waits for the lock.
ForceWaits(t) ==
    \/ pc[t] = "f_read" /\ ~CanRead
    \/ pc[t] = "f_write" /\ ~CanWrite

\* Another thread holds the lock inside a call of force.
HeldByForce(t) ==
    \E u \in Threads \ {t} :
        \/ writer = u /\ InWritePhase(u)
        \/ u \in readers /\ pc[u] = "f_check"

\* C16, as claimed.  No blocking after evaluation: once a call of force has
\* returned and the state is Value, no call of force waits for a lock that
\* another call of force holds.
C16_NoBlocking ==
    (forced /\ inner.tag = "Value") =>
        \A t \in Threads : ~(ForceWaits(t) /\ HeldByForce(t))

\* C16, amended.  Once the evaluation is over no call of force enters the
\* write phase, so calls that start from then on never request the write
\* lock; when no call is left in the write phase of force and no deref_mut
\* holds its guard, the lock has no writer and no call of force waits; and a
\* call of force that does wait for a writer waits for a call still in its
\* write phase.
C16_NoNewWriters ==
    /\ [][EvaluationDone =>
            \A t \in Threads : pc'[t] = "f_write" => pc[t] = "f_write"]_vars
    /\ []((/\ EvaluationDone
           /\ \A t \in Threads : ~InWritePhase(t) /\ pc[t] # "m_match") =>
            /\ writer = None
            /\ \A t \in Threads : pc[t] = "f_read" => CanRead)
    /\ [](EvaluationDone =>
            \A t \in Threads :
                (pc[t] = "f_read" /\ ~CanRead) =>
                    writer \in Threads /\ InWritePhase(writer))

\* After a call of force returned, a call that passed its read phase earlier
\* holds the write lock and a new call of force waits for it.
C16_Witness ==
    /\ forced
    /\ \E t, u \in Threads :
          /\ writer = t /\ pc[t] \in {"f_replace", "f_restore", "f_unlock"}
          /\ pc[u] = "f_read"

\* ----------------------------------------------------------- state machine

\* C17. State-machine order: a step that takes the state out of Unevaluated
\* takes it to Evaluating, never straight to Value; no step takes the state
\* to Unevaluated from Evaluating or Value; the evaluator is started only by
\* the step from Unevaluated to Evaluating, under the write lock, and while it
\* runs the state is Evaluating and its thread holds the write lock.
C17_StateOrder ==
    /\ [][/\ inner.tag = "Unevaluated" =>
                inner'.tag \in {"Unevaluated", "Evaluating"}
          /\ inner.tag # "Unevaluated" => inner'.tag # "Unevaluated"
          /\ evalCount' # evalCount =>
                /\ inner.tag = "Unevaluated"
                /\ inner'.tag = "Evaluating"
                /\ writer' \in Threads]_vars
    /\ [](\A t \in Threads :
            InEvaluator(t) => inner.tag = "Evaluating" /\ writer = t)

\* A thread has taken the state from Unevaluated through Evaluating to Value
\* and still holds the write lock.
C17_Witness ==
    \E t \in Threads :
        /\ pc[t] = "f_unlock"
        /\ taken[t].tag = "Unevaluated"
        /\ inner.tag = "Value"
        /\ writer = t

\* ------------------------------------------------------------ unreachable!

\* C18. The unreachable!() of force (line 84) is never executed: a thread
\* that holds the write guard of line 79 and is about to run line 81 finds the
\* state Unevaluated or Value, never Evaluating; the lock is poisoned only by
\* a panic of the evaluator, before any evaluation has returned.
C18_ForceUnreachable ==
    /\ \A t \in Threads :
          pc[t] = "f_replace" =>
              writer = t /\ inner.tag \in {"Unevaluated", "Value"}
    /\ poisoned =>
          /\ evaluator.behaviour \in {"panics", "reenters"}
          /\ evalCount = 1
          /\ evalDone = 0

\* Two threads raced through the read phase; the one that lost holds the
\* write lock and finds Value.
C18_Witness ==
    \E t \in Threads :
        /\ pc[t] = "f_replace"
        /\ writer = t
        /\ inner.tag = "Value"
        /\ evalDone = 1

\* C19. The unreachable!() of deref (line 118) and of deref_mut (line 100)
\* are never executed: between the return of force and the accessor's own
\* lock acquisition the lock is not poisoned, and under its read guard
\* (deref) or write guard (deref_mut) the accessor finds Value, whatever the
\* other threads do in between; it then returns a reference to the value and
\* does not panic.
C19_AccessorUnreachable ==
    /\ [](\A t \in Threads :
            /\ pc[t] \in {"d_read", "m_write"} => ~poisoned
            /\ pc[t] = "d_match" => t \in readers /\ inner.tag = "Value"
            /\ pc[t] = "m_match" => writer = t /\ inner.tag = "Value")
    /\ [][\A t \in Threads :
            (pc[t] \in {"d_match", "m_match"} /\ pc'[t] # pc[t]) =>
                /\ pc'[t] \in {"d_ref", "m_ref"}
                /\ inner' = Value(cur)]_vars

\* deref holds its read guard over Value while another thread, which passed
\* the read phase of force earlier, waits for the write lock.
C19_Witness ==
    \E t, u \in Threads :
        /\ pc[t] = "d_match"
        /\ inner.tag = "Value"
        /\ pc[u] = "f_write"

====
